---------------------------- MODULE Spec2Model ----------------------------
(***************************************************************************)
(* A model of the appointment checker of src/main.py: the scheduler loop   *)
(* of main(), the workflow of AppointmentChecker.check_appointments and    *)
(* its stages (navigate_to_homepage, solve_captcha, fill_form,             *)
(* check_availability), and the recognizer of CaptchaSolver.               *)
(*                                                                         *)
(* Conventions.                                                            *)
(*  - A text (a page's result text, an OCR fragment) is a sequence of      *)
(*    one-symbol strings; "x in text" of Python is Contains, a test for a  *)
(*    contiguous subsequence.  The portal's negative phrase is the symbol  *)
(*    sequence NEG_PHRASE.                                                 *)
(*  - retry_backoff is a Python float that only ever holds 0.8^k; it is    *)
(*    kept as the exact fraction num/den, and so is every wait.  The       *)
(*    comparisons the model makes (>= 1, >= floor, one wait against the    *)
(*    next) come out the same in floating point.                           *)
(*  - The browser, the page, the configuration file and the recognition    *)
(*    engine are the environment: what they return or raise is chosen      *)
(*    with \E from the sets an action is given.                            *)
(*  - The variables marked "history" record what the program did (the      *)
(*    calls it made, in order); no action reads them to decide anything.   *)
(***************************************************************************)
EXTENDS Integers, Sequences, FiniteSets

(***************************************************************************)
(* Program constants (src/main.py:26-29, 277, 493).                        *)
(***************************************************************************)
\* A loop that made one more attempt.
RETRY_COUNT_OneMore == 3 + 1

RETRY_COUNT == 3
CHECK_INTERVAL == 600
ACCELERATED_CHECK_INTERVAL == 120
ERROR_RETRY_INTERVAL == 300
RETRY_WAIT_FLOOR == 120
MAX_PERSON_COUNT == 4
CODE_LENGTH == 6

(***************************************************************************)
(* Bounds of the model.                                                    *)
(***************************************************************************)
\* The scheduler processes at most MaxErrors error outcomes in a row.
MaxErrors == 7

(***************************************************************************)
(* Fractions.                                                              *)
(***************************************************************************)
Frac(n, d) == [num |-> n, den |-> d]
Whole(n) == Frac(n, 1)
FracGeq(a, b) == a.num * b.den >= b.num * a.den
FracEq(a, b) == a.num * b.den = b.num * a.den
FracMul(a, b) == Frac(a.num * b.num, a.den * b.den)

RECURSIVE Pow(_, _)
Pow(b, e) == IF e = 0 THEN 1 ELSE b * Pow(b, e - 1)

\* retry_backoff *= 0.8 (src/main.py:498): 0.8 is the fraction 4/5.
BACKOFF_FACTOR == Frac(4, 5)

(***************************************************************************)
(* Texts.                                                                  *)
(***************************************************************************)
Contains(sub, s) ==
    \E i \in 0..(Len(s) - Len(sub)) : SubSeq(s, i + 1, i + Len(sub)) = sub

\* "Uygun randevu tarihi bulunmamaktadir", one symbol per word.
NEG_PHRASE == <<"Uygun", "randevu", "tarihi", "bulunmamaktadir">>
\* The text a record carries when the page's result text is empty.
NO_RESULT_TEXT == <<"No result text">>

\* Result texts the page may show: nothing, the negative phrase alone, the
\* phrase inside a longer text, a part of the phrase only, an open date.
EMPTY_TEXT == <<>>
EMBEDDED_TEXT == <<"Not:">> \o NEG_PHRASE \o <<".">>
PARTIAL_TEXT == <<"Uygun", "randevu", "tarihi">>
DATE_TEXT == <<"12.05.2025", "icin", "uygun">>
AllTexts == {EMPTY_TEXT, NEG_PHRASE, EMBEDDED_TEXT, PARTIAL_TEXT, DATE_TEXT}
FewTexts == {NEG_PHRASE, DATE_TEXT}

(***************************************************************************)
(* Configuration records: the value config.yaml holds under the config     *)
(* key.  ConfigManager accepts any non-empty value; the keys it may lack   *)
(* are the ones the workflow reads later.                                  *)
(***************************************************************************)
OfficeAbsent == [kind |-> "none", items |-> <<>>]
OfficeString == [kind |-> "str", items |-> <<"VIP">>]
OfficeEmptyList == [kind |-> "list", items |-> <<>>]
OfficeList == [kind |-> "list", items |-> <<"STANDART", "VIP">>]

Config(chat, token, office) ==
    [telegram_chat_id |-> chat, telegram_token |-> token, office_type |-> office]
NoConfig == Config(FALSE, FALSE, OfficeAbsent)

AllConfigs ==
    {Config(c, t, o) : c \in BOOLEAN, t \in BOOLEAN,
                       o \in {OfficeAbsent, OfficeString, OfficeEmptyList, OfficeList}}
\* The configurations with exactly one office type.
SingleOfficeConfigs ==
    {Config(c, t, o) : c \in BOOLEAN, t \in BOOLEAN,
                       o \in {OfficeAbsent, OfficeString}}

\* --interval values: the default and an override.
Intervals == {CHECK_INTERVAL, 60}

(***************************************************************************)
(* OCR inputs: what reader.readtext returns, a sequence of fragments.      *)
(***************************************************************************)
OcrResults ==
    { << <<"1", "2", "3">>, <<"4", "5", "6", "7">> >>,
      << <<"1", "a", "2">>, <<"3", "4", "-", "5", "6">> >>,
      << <<"1", "2", "3", "4", "5">> >>,
      << >> }
Digits == {"0", "1", "2", "3", "4", "5", "6", "7", "8", "9"}
NoCode == <<>>


(***************************************************************************)
(* OCR inputs for the recognizer taken alone: every text of at most        *)
(* MaxOcrChars characters whose i-th character is the digit i or a         *)
(* letter, as one fragment or cut in two at any place.                     *)
(***************************************************************************)
MaxOcrChars == 7
DigitChars == <<"1", "2", "3", "4", "5", "6", "7", "8", "9">>
OcrTexts ==
    UNION { { [i \in 1..n |-> IF i \in letters THEN "a" ELSE DigitChars[i]] :
              letters \in SUBSET (1..n) } : n \in 0..MaxOcrChars }
OcrInputs ==
    { << >> } \cup { <<t>> : t \in OcrTexts }
      \cup UNION { { <<SubSeq(t, 1, k), SubSeq(t, k + 1, Len(t))>> : k \in 0..Len(t) } :
                   t \in OcrTexts }

(***************************************************************************)
(* What one read of the image source can do (lines 187-195): raise,        *)
(* return an empty value, return a source that decodes ("data") or one     *)
(* that does not ("bad").                                                  *)
(***************************************************************************)
\* The configurations of the recognizer taken alone.
OcrConfigs == {Config(c, TRUE, OfficeAbsent) : c \in BOOLEAN}

AllReads == {"raise", "", "data", "bad"}
GoodReads == {"data"}

(***************************************************************************)
(* What one call of extract_six_digit_code can meet: a fault of the        *)
(* reader's load (line 128), of the image conversion (lines 131-134), of   *)
(* readtext (line 137), or a list of fragments.                            *)
(***************************************************************************)
Extractions(Ocr) ==
    { [fault |-> f, frags |-> << >>] : f \in {"init", "convert", "readtext"} }
      \cup { [fault |-> "none", frags |-> fr] : fr \in Ocr }

VARIABLES
    pc,               \* where the process is
    interval,         \* args.interval
    headless,         \* args.headless
    accelerated_mode, \* main: accelerated_mode
    retry_backoff,    \* main: retry_backoff, a fraction
    last,             \* history: the last outcome main handled, and the wait it chose
    cfg,              \* checker.appointment_config
    reader_loaded,    \* CaptchaSolver._instance.reader is not None
    try_count,        \* solve_captcha: reads of the image source made so far
    captcha_image,    \* solve_captcha: captcha_image ("None", "", "data", "bad")
    captcha_code,     \* solve_captcha: captcha_code
    office_types,     \* check_appointments: office_types
    ot_idx,           \* check_appointments: position of the for loop in office_types
    all_results,      \* check_appointments: all_results
    found_available,  \* check_appointments: found_available
    ret,              \* what check_appointments returned
    person_count,     \* check_availability: person_count
    results,          \* check_availability: results
    ca_found,         \* check_availability: found_available
    page_log,         \* history: what the page did at each party size of this call
    notifications,    \* history: the notifications sent in this run
    captcha_log,      \* history: what the last call of solve_captcha did, in order
    ocr,              \* history: the call of extract_six_digit_code it made
    typed,            \* history: the text it typed into the input field
    stages,           \* history: the stages of this run, in order
    started,          \* history: check_appointments has been called in this process
    reader_inits,     \* history: times an easyocr.Reader was constructed
    interrupted_at,   \* history: where a KeyboardInterrupt arrived ("" if none)
    bypass,           \* history: the challenge click navigate_to_homepage made
    form_log,         \* history: the selections the last call of fill_form made
    type_flags        \* history: the flag each call of check_availability returned

schedVars == <<interval, headless, accelerated_mode, retry_backoff, last>>
captchaVars == <<try_count, captcha_image, captcha_code>>
runVars == <<office_types, ot_idx, all_results, found_available>>
availVars == <<person_count, results, ca_found, page_log>>
capHist == <<captcha_log, ocr, typed>>
procHist == <<started, reader_inits, interrupted_at>>
runHist == <<bypass, form_log, type_flags>>
vars == <<pc, schedVars, cfg, reader_loaded, captchaVars, runVars, ret, availVars,
          notifications, capHist, stages, procHist, runHist>>

NoRet == [result |-> "", status |-> "none", found |-> FALSE]
NoLast == [status |-> "none", found |-> FALSE, mode_before |-> FALSE,
           backoff_before |-> Whole(1), wait |-> Whole(0), errors |-> 0]
NoBypass == [click |-> "none", raised |-> FALSE]
NoFormLog == [made |-> << >>, failed |-> "none"]
NoOcr == [calls |-> 0, reused |-> FALSE, fault |-> "none", frags |-> << >>,
          code |-> NoCode, raised |-> FALSE]

Init ==
    /\ pc = "create"
    /\ interval \in Intervals
    /\ headless \in BOOLEAN
    /\ accelerated_mode = FALSE
    /\ retry_backoff = Whole(1)
    /\ last = NoLast
    /\ cfg = NoConfig
    /\ reader_loaded = FALSE
    /\ try_count = 0
    /\ captcha_image = "None"
    /\ captcha_code = NoCode
    /\ office_types = <<>>
    /\ ot_idx = 0
    /\ all_results = <<>>
    /\ found_available = FALSE
    /\ ret = NoRet
    /\ person_count = 0
    /\ results = <<>>
    /\ ca_found = FALSE
    /\ page_log = <<>>
    /\ notifications = <<>>
    /\ captcha_log = <<>>
    /\ ocr = NoOcr
    /\ typed = NoCode
    /\ stages = <<>>
    /\ started = FALSE
    /\ reader_inits = 0
    /\ interrupted_at = ""
    /\ bypass = NoBypass
    /\ form_log = NoFormLog
    /\ type_flags = <<>>

(***************************************************************************)
(* CaptchaSolver.extract_six_digit_code, lines 139-144: join the fragments *)
(* in engine order, keep the digit characters, return the first six when   *)
(* there are at least six, else None (NoCode).                             *)
(***************************************************************************)
RECURSIVE JoinFragments(_)
JoinFragments(frags) ==
    IF frags = <<>> THEN <<>> ELSE Head(frags) \o JoinFragments(Tail(frags))

IsDigit(c) == c \in Digits

DigitsOf(text) == SelectSeq(text, IsDigit)

\* A recognizer that returned whatever digits it found.
SixDigitCode_AnyDigits(frags) == DigitsOf(JoinFragments(frags))

SixDigitCode(frags) ==
    LET digits == DigitsOf(JoinFragments(frags))
    IN  IF Len(digits) >= CODE_LENGTH THEN SubSeq(digits, 1, CODE_LENGTH) ELSE NoCode

\* Lines 139-144 ran to the end: the call returns the code, or None.
ExtractResult(frags) == [code |-> SixDigitCode(frags), raised |-> FALSE]

\* A recognizer whose faults left it as exceptions.
ExtractFault_Raises(fault) == [code |-> NoCode, raised |-> TRUE]

\* The except clause of lines 145-147, around the whole body: every fault,
\* of the load, the conversion or readtext, is logged and None is returned.
ExtractFault(fault) == [code |-> NoCode, raised |-> FALSE]

\* A singleton that handed out a new solver to every checker.
get_instance_Fresh(loaded) == FALSE

\* CaptchaSolver.get_instance, lines 109-114: the one instance is created on
\* the first call and returned by every later one, with the reader it has.
get_instance(loaded) == loaded

\* Python truthiness of the image source: None and "" are falsy.
Truthy(src) == src \notin {"None", ""}

(***************************************************************************)
(* What check_appointments returns (lines 376, 382, 400-404, 407).         *)
(***************************************************************************)
Outcome(result, status, found) ==
    [result |-> result, status |-> status, found |-> found]

CaptchaFailedOutcome == Outcome("Error solving captcha", "error", FALSE)
FormFailedOutcome == Outcome("Error filling form", "error", FALSE)
SuccessOutcome(found) == Outcome("Check completed successfully", "success", found)
\* A handler that returned the flag as it stood when the fault came.
ExceptionOutcome_ReturnsFlag(found) ==
    Outcome("Error checking appointments", "error", found)

\* The except clause of line 405: found is the local found_available, which
\* the handler does not return.
ExceptionOutcome(found) == Outcome("Error checking appointments", "error", FALSE)

\* The workflow ends with outcome o; the locals of solve_captcha are gone.
Return(o) ==
    /\ ret' = o
    /\ pc' = "outcome"
    /\ try_count' = 0
    /\ captcha_image' = "None"
    /\ captcha_code' = NoCode

(***************************************************************************)
(* main, line 453: a checker is created for the iteration.  Its            *)
(* ConfigManager reads the file again; FileNotFoundError, YAMLError and    *)
(* the ValueError of a missing key are raised outside the try of line 455  *)
(* and leave main().  Its solver is the singleton (line 158).              *)
(***************************************************************************)
main_create_checker(Configs) ==
    /\ pc = "create"
    /\ \/ /\ pc' = "crashed"
          /\ cfg' = cfg
          /\ UNCHANGED reader_loaded
       \/ /\ \E c \in Configs : cfg' = c
          /\ reader_loaded' = get_instance(reader_loaded)
          /\ pc' = "check_start"
    /\ UNCHANGED <<schedVars, captchaVars, runVars, ret, availVars, notifications,
                   capHist, stages, procHist, runHist>>

(***************************************************************************)
(* get_office_types, lines 342-355.                                        *)
(***************************************************************************)
get_office_types(c) ==
    LET o == c.office_type
    IN  IF o.kind = "none" \/ o.items = <<>> THEN <<"STANDART">> ELSE o.items

(***************************************************************************)
(* check_appointments, lines 359-368: the part before the try.  Reading    *)
(* telegram_chat_id from a record that lacks it raises KeyError, which no  *)
(* handler of check_appointments covers.                                   *)
(***************************************************************************)
check_appointments_start ==
    /\ pc = "check_start"
    /\ IF ~cfg.telegram_chat_id
       THEN /\ pc' = "main_except"
            /\ UNCHANGED runVars
       ELSE /\ pc' = "navigate"
            /\ office_types' = get_office_types(cfg)
            /\ ot_idx' = 0
            /\ all_results' = <<>>
            /\ found_available' = FALSE
    /\ notifications' = <<>>
    /\ captcha_log' = <<>>
    /\ ocr' = NoOcr
    /\ typed' = NoCode
    /\ stages' = <<>>
    /\ started' = TRUE
    /\ bypass' = NoBypass
    /\ form_log' = NoFormLog
    /\ type_flags' = <<>>
    /\ UNCHANGED <<schedVars, cfg, reader_loaded, captchaVars, ret, availVars,
                   reader_inits, interrupted_at>>

(***************************************************************************)
(* navigate_to_homepage, lines 160-178, called at line 372.  A fault of    *)
(* the navigation itself reaches the handler of line 405; a fault of the   *)
(* challenge click is swallowed at line 174.                               *)
(***************************************************************************)
\* A handler that covered the headless click only.
BypassSwallowed_HeadlessOnly(mode) == mode

\* Lines 168-175: both clicks, click_if_visible of the headless mode and
\* gui_click_element of the visible one, are in the try whose except
\* Exception logs and goes on.
BypassSwallowed(mode) == TRUE

\* Lines 170-173: the click the mode makes.
BypassClick(mode) == IF mode THEN "click_if_visible" ELSE "gui_click_element"

navigate_to_homepage ==
    /\ pc = "navigate"
    /\ \/ /\ Return(ExceptionOutcome(found_available))
          /\ stages' = Append(stages, "navigate")
          /\ UNCHANGED bypass
       \/ \E click_raises \in BOOLEAN :
             /\ bypass' = [click |-> BypassClick(headless), raised |-> click_raises]
             /\ stages' = stages \o <<"navigate", "bypass">>
             /\ IF click_raises /\ ~BypassSwallowed(headless)
                THEN Return(ExceptionOutcome(found_available))
                ELSE /\ pc' = "captcha_read"
                     /\ UNCHANGED <<captchaVars, ret>>
    /\ UNCHANGED <<schedVars, cfg, reader_loaded, runVars, availVars, notifications,
                   capHist, procHist, form_log, type_flags>>

(***************************************************************************)
(* check_appointments, lines 375-376: solve_captcha has returned ok.       *)
(***************************************************************************)
\* A caller that went on whatever solve_captcha returned.
CaptchaGate_Ignored(ok) == TRUE

\* Line 375: the run goes on only if solve_captcha returned True.
CaptchaGate(ok) == ok

\* solve_captcha returns ok, having done log, made the recognizer call o
\* and typed ty; its caller returns the error outcome or goes on.
SolveCaptchaEnds(ok, log, o, ty) ==
    /\ captcha_log' = log
    /\ ocr' = o
    /\ typed' = ty
    /\ stages' = Append(stages, IF ok THEN "captcha_ok" ELSE "captcha_failed")
    /\ IF CaptchaGate(ok)
       THEN /\ pc' = "fill_form"
            /\ try_count' = 0
            /\ captcha_image' = "None"
            /\ captcha_code' = NoCode
            /\ ret' = ret
       ELSE Return(CaptchaFailedOutcome)

(***************************************************************************)
(* solve_captcha, lines 185-198: one pass of the for loop that reads the   *)
(* image source, and the test after the loop.  The loop sleeps only in     *)
(* its except clause (line 195).                                           *)
(***************************************************************************)
ReadEvents(r) ==
    CASE r = "raise" -> <<"read_raised", "sleep">>
      [] r = ""      -> <<"read_empty">>
      [] OTHER       -> <<"read_ok">>

solve_captcha_read(Reads) ==
    /\ pc = "captcha_read"
    /\ try_count < RETRY_COUNT
    /\ \E r \in Reads :
          LET log == captcha_log \o ReadEvents(r)
          IN  IF ~Truthy(r) \/ r = "raise"
              THEN IF try_count + 1 = RETRY_COUNT
                   THEN SolveCaptchaEnds(FALSE, log, ocr, typed)
                   ELSE /\ try_count' = try_count + 1
                        /\ captcha_image' = IF r = "raise" THEN captcha_image ELSE r
                        /\ pc' = "captcha_read"
                        /\ captcha_log' = log
                        /\ UNCHANGED <<captcha_code, ret, ocr, typed, stages>>
              ELSE /\ try_count' = try_count + 1
                   /\ captcha_image' = r
                   /\ pc' = "captcha_decode"
                   /\ captcha_log' = log
                   /\ UNCHANGED <<captcha_code, ret, ocr, typed, stages>>
    /\ bypass' = NoBypass
    /\ UNCHANGED <<schedVars, cfg, reader_loaded, runVars, availVars, notifications,
                   procHist, form_log, type_flags>>

(***************************************************************************)
(* solve_captcha, lines 201-213 with extract_six_digit_code, lines         *)
(* 125-147: decode the image, recognize the code, close the image.  A      *)
(* source that does not decode raises into the handler of line 227 before  *)
(* any image is open.  The recognizer loads its reader on first use        *)
(* (lines 120-123), inside its try.                                        *)
(***************************************************************************)
\* An image closed only on the way to typing the code.
AfterExtract_CloseOnSuccess(code) == IF code = NoCode THEN <<>> ELSE <<"close">>

\* Line 210, before the test of line 212: the image is closed whatever the
\* recognizer returned.
AfterExtract(code) == <<"close">>

\* A test that let an absent code through.
CodeMissing_Never(code) == FALSE

\* Line 212: if not captcha_code.
CodeMissing(code) == code = NoCode

solve_captcha_decode(Ocr) ==
    /\ pc = "captcha_decode"
    /\ \/ /\ captcha_image = "bad"
          /\ SolveCaptchaEnds(FALSE, Append(captcha_log, "decode_raised"), ocr, typed)
          /\ UNCHANGED <<reader_loaded, reader_inits>>
       \/ /\ captcha_image = "data"
          /\ \E x \in Extractions(Ocr) :
                /\ x.fault = "init" => ~reader_loaded
                /\ LET r == IF x.fault = "none" THEN ExtractResult(x.frags)
                                                ELSE ExtractFault(x.fault)
                       loaded == IF x.fault = "init" THEN reader_loaded ELSE TRUE
                       log == captcha_log \o <<"open", "ocr">>
                                \o (IF r.raised THEN <<>> ELSE AfterExtract(r.code))
                       o == [calls |-> ocr.calls + 1, reused |-> reader_loaded,
                             fault |-> x.fault, frags |-> x.frags, code |-> r.code,
                             raised |-> r.raised]
                   IN  /\ reader_loaded' = loaded
                       /\ reader_inits' = IF loaded /\ ~reader_loaded
                                          THEN reader_inits + 1 ELSE reader_inits
                       /\ IF r.raised \/ CodeMissing(r.code)
                          THEN SolveCaptchaEnds(FALSE, log, o, typed)
                          ELSE /\ captcha_code' = r.code
                               /\ pc' = "captcha_submit"
                               /\ captcha_log' = log
                               /\ ocr' = o
                               /\ UNCHANGED <<try_count, captcha_image, ret, typed, stages>>
    /\ UNCHANGED <<schedVars, cfg, runVars, availVars, notifications, started,
                   interrupted_at, runHist>>

(***************************************************************************)
(* solve_captcha, lines 215-229: type the code (line 218), click submit    *)
(* (line 224).  A fault of either reaches the handler of line 227.         *)
(***************************************************************************)
solve_captcha_submit ==
    /\ pc = "captcha_submit"
    /\ \/ SolveCaptchaEnds(FALSE, Append(captcha_log, "type_raised"), ocr, typed)
       \/ SolveCaptchaEnds(FALSE, captcha_log \o <<"type", "submit_raised">>, ocr,
                           captcha_code)
       \/ SolveCaptchaEnds(TRUE, captcha_log \o <<"type", "submit">>, ocr, captcha_code)
    /\ UNCHANGED <<schedVars, cfg, reader_loaded, runVars, availVars, notifications,
                   procHist, runHist>>

(***************************************************************************)
(* fill_form, lines 231-270, called at line 381 without an office type:    *)
(* city, office, travel purpose.  failed_at is the selection that raises   *)
(* (0: none); the handler of line 268 turns it into False.                 *)
(***************************************************************************)
\* Lines 234-257: city, office, application type (the travel purpose).
FORM_SELECTIONS == <<"city", "office", "application_type">>

\* Lines 259-264: the office type is selected last, when one is given.
FormSelections(office_type) ==
    IF office_type # "None" THEN Append(FORM_SELECTIONS, "office_type")
                            ELSE FORM_SELECTIONS

\* A form that went on to the later selections after one had failed.
SelectionsMade_All(sels, failed_at) == sels

\* The selections attempted when selection failed_at raises (0: none
\* raises): the exception leaves the try for the handler of line 268.
SelectionsMade(sels, failed_at) ==
    IF failed_at = 0 THEN sels ELSE SubSeq(sels, 1, failed_at)

fill_form ==
    /\ pc = "fill_form"
    /\ LET sels == FormSelections("None")
       IN  \E failed_at \in 0..Len(sels) :
              /\ form_log' = [made |-> SelectionsMade(sels, failed_at),
                              failed |-> IF failed_at = 0 THEN "none" ELSE sels[failed_at]]
              /\ IF failed_at = 0
                 THEN /\ pc' = "office_loop"
                      /\ ot_idx' = 1
                      /\ stages' = Append(stages, "form_ok")
                      /\ UNCHANGED <<captchaVars, ret>>
                 ELSE /\ Return(FormFailedOutcome)
                      /\ stages' = Append(stages, "form_failed")
                      /\ UNCHANGED ot_idx
    /\ captcha_log' = <<>>
    /\ ocr' = NoOcr
    /\ typed' = NoCode
    /\ UNCHANGED <<schedVars, cfg, reader_loaded, office_types, all_results,
                   found_available, availVars, notifications, procHist, bypass,
                   type_flags>>

(***************************************************************************)
(* check_appointments, lines 385-393: the for loop over office_types       *)
(* selects the office type and calls check_availability; a fault of the    *)
(* selection reaches the handler of line 405.                              *)
(***************************************************************************)
select_office_type ==
    /\ pc = "office_loop"
    /\ ot_idx <= Len(office_types)
    /\ \/ /\ Return(ExceptionOutcome(found_available))
          /\ stages' = Append(stages, "office_select")
          /\ UNCHANGED availVars
       \/ /\ pc' = "check_person"
          /\ person_count' = 1
          /\ results' = <<>>
          /\ ca_found' = FALSE
          /\ page_log' = <<>>
          /\ stages' = stages \o <<"office_select", "availability">>
          /\ UNCHANGED <<captchaVars, ret>>
    /\ UNCHANGED <<schedVars, cfg, reader_loaded, runVars, notifications, capHist,
                   procHist, runHist>>

(***************************************************************************)
(* check_appointments, lines 400-404: the loop is over.                    *)
(***************************************************************************)
check_appointments_return ==
    /\ pc = "office_loop"
    /\ ot_idx > Len(office_types)
    /\ Return(SuccessOutcome(found_available))
    /\ UNCHANGED <<schedVars, cfg, reader_loaded, runVars, availVars, notifications,
                   capHist, stages, procHist, runHist>>

(***************************************************************************)
(* check_availability, lines 272-340.                                      *)
(***************************************************************************)
\* Line 292: result_text and "Uygun randevu tarihi bulunmamaktadir" not in result_text.
IsAvailable(text) == text # <<>> /\ ~Contains(NEG_PHRASE, text)

\* Lines 307-314.
AvailableRecord(n, office, text) ==
    [person_count |-> n, office_type |-> office, available |-> TRUE, text |-> text]

\* Lines 319-326.
UnavailableRecord(n, office, text) ==
    [person_count |-> n, office_type |-> office, available |-> FALSE,
     text |-> IF text # <<>> THEN text ELSE NO_RESULT_TEXT]

\* Lines 331-338.
ErrorRecord(n, office, e) ==
    [person_count |-> n, office_type |-> office, available |-> FALSE, error |-> e]

\* A handler that logged the error without recording it.
OnCheckError_Dropped(rs, n, office, e) == rs

\* The except clause of line 327: the error is recorded, the loop goes on.
OnCheckError(rs, n, office, e) == Append(rs, ErrorRecord(n, office, e))

\* The message of line 304.
Notification(n, office, text) ==
    [person_count |-> n, office_type |-> office, text |-> text]

\* The range of the for loop of line 277 is exhausted after n.
LastPerson(n) == n = MAX_PERSON_COUNT

(***************************************************************************)
(* One pass of the for loop of line 277, for party size person_count.      *)
(* Either the page raises before the result text is read (lines 280-289),  *)
(* or it shows a text.  For an available text, found_available is set at   *)
(* line 298, before the notification arguments are read: a record without  *)
(* telegram_token raises KeyError at line 302, into the except clause.     *)
(* send_telegram_message itself never raises (lines 91-101).               *)
(***************************************************************************)
check_availability_person(Texts) ==
    /\ pc = "check_person"
    /\ LET n == person_count
           office == office_types[ot_idx]
       IN  /\ \/ /\ results' = OnCheckError(results, n, office, "page")
                 /\ page_log' = Append(page_log, [raised |-> TRUE, text |-> <<>>])
                 /\ UNCHANGED <<ca_found, notifications>>
              \/ \E text \in Texts :
                    /\ page_log' = Append(page_log, [raised |-> FALSE, text |-> text])
                    /\ IF IsAvailable(text)
                       THEN /\ ca_found' = TRUE
                            /\ IF cfg.telegram_token
                               THEN /\ notifications' =
                                          Append(notifications, Notification(n, office, text))
                                    /\ results' =
                                          Append(results, AvailableRecord(n, office, text))
                               ELSE /\ results' = OnCheckError(results, n, office, "KeyError")
                                    /\ UNCHANGED notifications
                       ELSE /\ results' = Append(results, UnavailableRecord(n, office, text))
                            /\ UNCHANGED <<ca_found, notifications>>
           /\ person_count' = n + 1
           /\ pc' = IF LastPerson(n) THEN "ca_return" ELSE "check_person"
    /\ UNCHANGED <<schedVars, cfg, reader_loaded, captchaVars, runVars, ret, capHist,
                   stages, procHist, runHist>>

(***************************************************************************)
(* Line 340 and lines 393-398: check_availability returns (results,        *)
(* found_available); check_appointments extends all_results and raises     *)
(* its own flag.                                                           *)
(***************************************************************************)
\* A flag that kept what the last office type returned.
OrFlag_Last(found, available) == available

\* Lines 397-398: if available: found_available = True.
OrFlag(found, available) == IF available THEN TRUE ELSE found

check_availability_return ==
    /\ pc = "ca_return"
    /\ all_results' = all_results \o results
    /\ found_available' = OrFlag(found_available, ca_found)
    /\ type_flags' = Append(type_flags, ca_found)
    /\ ot_idx' = ot_idx + 1
    /\ pc' = "office_loop"
    /\ person_count' = 0
    /\ results' = <<>>
    /\ ca_found' = FALSE
    /\ page_log' = <<>>
    /\ UNCHANGED <<schedVars, cfg, reader_loaded, captchaVars, office_types, ret,
                   notifications, capHist, stages, procHist, bypass, form_log>>

(***************************************************************************)
(* main, lines 456-498: the outcome is handled.                            *)
(***************************************************************************)
\* A mode that, once accelerated, stayed accelerated.
NextMode_Sticky(accelerated, found) == accelerated \/ found

\* Lines 459-474.
NextMode(accelerated, found) ==
    IF found
    THEN (IF ~accelerated THEN TRUE ELSE accelerated)
    ELSE (IF accelerated THEN FALSE ELSE accelerated)

\* Lines 467 and 476.
CheckIntervalFor(found, configured) ==
    IF found THEN ACCELERATED_CHECK_INTERVAL ELSE configured

\* A wait computed after the multiplier was adjusted.
RetryWait_Adjusted(backoff) ==
    LET scaled == FracMul(Whole(ERROR_RETRY_INTERVAL), FracMul(backoff, BACKOFF_FACTOR))
    IN  IF FracGeq(scaled, Whole(RETRY_WAIT_FLOOR)) THEN scaled ELSE Whole(RETRY_WAIT_FLOOR)

\* A wait without its floor.
RetryWait_NoFloor(backoff) == FracMul(Whole(ERROR_RETRY_INTERVAL), backoff)

\* Line 493: max(ERROR_RETRY_INTERVAL * retry_backoff, 120).
RetryWait(backoff) ==
    LET scaled == FracMul(Whole(ERROR_RETRY_INTERVAL), backoff)
    IN  IF FracGeq(scaled, Whole(RETRY_WAIT_FLOOR)) THEN scaled ELSE Whole(RETRY_WAIT_FLOOR)

\* Lines 489 and 498.
NextBackoff(status, backoff) ==
    IF status = "success" THEN Whole(1) ELSE FracMul(backoff, BACKOFF_FACTOR)

\* The number of error outcomes handled in a row is below the bound.
ErrorsBelowBound == retry_backoff.den < Pow(BACKOFF_FACTOR.den, MaxErrors)

main_process_outcome ==
    /\ pc = "outcome"
    /\ ret.status = "success" \/ ErrorsBelowBound
    /\ accelerated_mode' = NextMode(accelerated_mode, ret.found)
    /\ retry_backoff' = NextBackoff(ret.status, retry_backoff)
    /\ last' = [status |-> ret.status,
                found |-> ret.found,
                mode_before |-> accelerated_mode,
                backoff_before |-> retry_backoff,
                wait |-> IF ret.status = "success"
                         THEN Whole(CheckIntervalFor(ret.found, interval))
                         ELSE RetryWait(retry_backoff),
                errors |-> IF ret.status = "success" THEN 0 ELSE last.errors + 1]
    /\ pc' = "sleep"
    /\ ret' = NoRet
    /\ office_types' = <<>>
    /\ ot_idx' = 0
    /\ all_results' = <<>>
    /\ found_available' = FALSE
    /\ stages' = <<>>
    /\ form_log' = NoFormLog
    /\ type_flags' = <<>>
    /\ UNCHANGED <<interval, headless, cfg, reader_loaded, captchaVars, availVars,
                   notifications, capHist, procHist, bypass>>

(***************************************************************************)
(* main, lines 502-505: an exception that left check_appointments.  The    *)
(* handler sleeps ERROR_RETRY_INTERVAL and leaves retry_backoff alone.     *)
(***************************************************************************)
main_except_exception ==
    /\ pc = "main_except"
    /\ last' = [status |-> "exception",
                found |-> FALSE,
                mode_before |-> accelerated_mode,
                backoff_before |-> retry_backoff,
                wait |-> Whole(ERROR_RETRY_INTERVAL),
                errors |-> last.errors]
    /\ pc' = "sleep"
    /\ UNCHANGED <<interval, headless, accelerated_mode, retry_backoff, cfg,
                   reader_loaded, captchaVars, runVars, ret, availVars, notifications,
                   capHist, stages, procHist, runHist>>

(***************************************************************************)
(* main, lines 490/496/505 and 508-509: the wait is over, the checker is   *)
(* deleted, the while loop starts over.                                    *)
(***************************************************************************)
main_next_iteration ==
    /\ pc = "sleep"
    /\ pc' = "create"
    /\ cfg' = NoConfig
    /\ notifications' = <<>>
    /\ UNCHANGED <<schedVars, reader_loaded, captchaVars, runVars, ret, availVars,
                   capHist, stages, procHist, runHist>>

(***************************************************************************)
(* A KeyboardInterrupt (the operator's Ctrl-C) arrives while main is in    *)
(* its loop.  It is not an Exception: no handler of the workflow catches   *)
(* it (lines 145, 227, 268, 327, 405, 502).  The except clause of line     *)
(* 499 catches it, and breaks, when it is raised in the try block of       *)
(* lines 455-498: the workflow, the handling of its outcome and the        *)
(* sleeps of lines 490 and 496.  Line 453 is before the try, and lines     *)
(* 503-505 are in the handler of line 502: raised there, it leaves main(). *)
(***************************************************************************)
\* Where main is: the sleep of pc "sleep" is that of line 490, 496 or 505.
Where ==
    IF pc # "sleep" THEN pc
    ELSE CASE last.status = "exception" -> "sleep_after_exception"
           [] last.status = "error"     -> "sleep_backoff"
           [] OTHER                     -> "sleep_interval"

\* The statement main is at lies in the try block of lines 455-498.
InTry(where) == where \notin {"create", "main_except", "sleep_after_exception"}

interrupt ==
    /\ pc \notin {"crashed", "terminated", "interrupt_escaped"}
    /\ interrupted_at' = Where
    /\ pc' = IF InTry(Where) THEN "terminated" ELSE "interrupt_escaped"
    /\ cfg' = NoConfig
    /\ try_count' = 0
    /\ captcha_image' = "None"
    /\ captcha_code' = NoCode
    /\ office_types' = <<>>
    /\ ot_idx' = 0
    /\ all_results' = <<>>
    /\ found_available' = FALSE
    /\ ret' = NoRet
    /\ person_count' = 0
    /\ results' = <<>>
    /\ ca_found' = FALSE
    /\ page_log' = <<>>
    /\ notifications' = <<>>
    /\ captcha_log' = <<>>
    /\ ocr' = NoOcr
    /\ typed' = NoCode
    /\ stages' = <<>>
    /\ bypass' = NoBypass
    /\ form_log' = NoFormLog
    /\ type_flags' = <<>>
    /\ UNCHANGED <<schedVars, reader_loaded, started, reader_inits>>

(***************************************************************************)
(* Specifications.                                                         *)
(*   Spec      the scheduler loop and the operator's interrupt, with       *)
(*             configurations of one office type and the result texts      *)
(*             FewTexts;                                                   *)
(*   SpecRun   the first iteration of the loop, with every configuration   *)
(*             (one or two office types) and the result texts FewTexts;    *)
(*   SpecAvail the first iteration of the loop, with configurations of     *)
(*             one office type and every result text of AllTexts;          *)
(*   SpecOcr   the first iteration of the loop, on a page whose image      *)
(*             source is read at once, with every fragment list of         *)
(*             OcrInputs.                                                  *)
(***************************************************************************)
Workflow(Configs, Texts, Reads, Ocr) ==
    \/ main_create_checker(Configs)
    \/ check_appointments_start
    \/ navigate_to_homepage
    \/ solve_captcha_read(Reads)
    \/ solve_captcha_decode(Ocr)
    \/ solve_captcha_submit
    \/ fill_form
    \/ select_office_type
    \/ check_availability_person(Texts)
    \/ check_availability_return
    \/ check_appointments_return
    \/ main_process_outcome
    \/ main_except_exception

Next ==
    \/ Workflow(SingleOfficeConfigs, FewTexts, AllReads, OcrResults)
    \/ main_next_iteration
    \/ interrupt
Spec == Init /\ [][Next]_vars

NextRun == Workflow(AllConfigs, FewTexts, AllReads, OcrResults)
SpecRun == Init /\ [][NextRun]_vars

NextAvail == Workflow(SingleOfficeConfigs, AllTexts, AllReads, OcrResults)
SpecAvail == Init /\ [][NextAvail]_vars

NextOcr == Workflow(OcrConfigs, FewTexts, GoodReads, OcrInputs)
SpecOcr == Init /\ [][NextOcr]_vars

(***************************************************************************)
(* Properties.                                                             *)
(***************************************************************************)
\* main has just handled an outcome that check_appointments returned.
Handled == pc = "outcome" /\ pc' = "sleep"

\* C1: over consecutive error outcomes each error wait is at least the
\* previous error wait, and the first error wait after a success outcome is
\* the base error interval, 300 s.
C1_BackoffGrowsAndResets ==
    [][(Handled /\ ret.status = "error") =>
          /\ last.status = "error" => FracGeq(last'.wait, last.wait)
          /\ last.status = "success" => FracEq(last'.wait, Whole(300))]_vars

\* C2: in every reachable state of the scheduler loop the backoff multiplier
\* retry_backoff is at least 1.
C2_BackoffAtLeastOne == FracGeq(retry_backoff, Whole(1))

\* C3: an error outcome never changes the scheduler mode: after main has
\* handled an outcome of status error, accelerated_mode is what it was before.
C3_ErrorKeepsMode ==
    last.status = "error" => accelerated_mode = last.mode_before

\* C4: after a success outcome the mode follows availability, from either
\* mode: ACCELERATED when the run found availability, NORMAL when it found
\* none (so availability and then none goes NORMAL, ACCELERATED, NORMAL).
C4_SuccessModeFollowsAvailability ==
    last.status = "success" => accelerated_mode = last.found

\* C4, witness: a success outcome without availability was handled in
\* ACCELERATED mode, which only an earlier success outcome with availability
\* can have set, and the mode is NORMAL again.
C4_Witness ==
    /\ last.status = "success"
    /\ last.mode_before
    /\ ~last.found
    /\ ~accelerated_mode

\* C5: the wait chosen after a run is 120 s after a success outcome that
\* leaves the loop accelerated, the configured interval after a success
\* outcome that leaves it normal, and max(300 * multiplier, 120) after an
\* error outcome, with the multiplier as it was before the error was handled.
C5_WaitByOutcome ==
    /\ (last.status = "success" /\ accelerated_mode) => last.wait = Whole(120)
    /\ (last.status = "success" /\ ~accelerated_mode) => last.wait = Whole(interval)
    /\ last.status = "error" =>
          LET b == last.backoff_before
          IN  IF 300 * b.num >= 120 * b.den
              THEN FracEq(last.wait, Frac(300 * b.num, b.den))
              ELSE FracEq(last.wait, Whole(120))

\* C5, witness: an error outcome was handled with a multiplier other than 1
\* and its wait lies strictly between the floor and the base interval.
C5_Witness ==
    /\ last.status = "error"
    /\ ~FracEq(last.backoff_before, Whole(1))
    /\ ~FracEq(last.wait, Whole(120))
    /\ ~FracEq(last.wait, Whole(300))

\* C6: every outcome of status error that check_appointments returns has
\* any-availability false, whichever step failed and whatever was found
\* before the failure.
C6_ErrorOutcomeNotAvailable ==
    (pc = "outcome" /\ ret.status = "error") => ret.found = FALSE

\* C6, witness: an error outcome of a run that had already found an open
\* slot, and notified it, for an earlier office type.
C6_Witness ==
    /\ pc = "outcome"
    /\ ret.status = "error"
    /\ found_available
    /\ notifications # <<>>

\* C7: no exception propagates out of check_appointments: main never
\* reaches its handler for an exception of the call.
C7_NoExceptionLeavesWorkflow == pc # "main_except"

\* The records of the call so far are one per party size, in ascending order.
RecordsInOrder ==
    /\ Len(results) = Len(page_log)
    /\ \A i \in 1..Len(results) : results[i].person_count = i

\* C8: check_availability returns exactly 4 records, for party sizes 1, 2, 3,
\* 4 in this order; a party size whose check raised has an error record with
\* available false, and every party size after it was still checked.
C8_FourRecordsInOrder ==
    /\ pc = "check_person" => RecordsInOrder /\ Len(results) = person_count - 1
    /\ pc = "ca_return" =>
          /\ RecordsInOrder
          /\ Len(results) = 4
          /\ \A i \in 1..4 :
                page_log[i].raised =>
                   "error" \in DOMAIN results[i] /\ ~results[i].available

\* C8, witness: a call returns after the checks of sizes 1 and 3 raised and
\* the checks of sizes 2 and 4 went through.
C8_Witness ==
    /\ pc = "ca_return"
    /\ page_log[1].raised
    /\ ~page_log[2].raised
    /\ page_log[3].raised
    /\ ~page_log[4].raised
    /\ results[4].available

\* C9: the flag check_availability returns is the OR of the available fields
\* of the records it returns.
C9_FlagIsOrOfRecords ==
    pc = "ca_return" =>
       (ca_found <=> \E i \in 1..Len(results) : results[i].available)

\* A notification was sent for party size i of the current call.
Notified(i) ==
    \E k \in 1..Len(notifications) :
       /\ notifications[k].person_count = i
       /\ notifications[k].office_type = office_types[ot_idx]

\* C10: for each party-size check a notification is sent if and only if the
\* result text is non-empty and does not contain the negative phrase, and in
\* exactly those cases the record has available = true.
C10_NotifiedIffAvailableText ==
    pc \in {"check_person", "ca_return"} =>
       \A i \in 1..Len(page_log) :
          LET text == page_log[i].text
              open == /\ ~page_log[i].raised
                      /\ text # <<>>
                      /\ ~Contains(NEG_PHRASE, text)
          IN  /\ Notified(i) <=> open
              /\ results[i].available <=> open

(***************************************************************************)
(* The recognizer and the CAPTCHA stage.                                   *)
(***************************************************************************)
\* The places of the digit characters in a text.
DigitPlaces(text) == {i \in 1..Len(text) : text[i] \in Digits}

\* The k-th digit character of a text, counted from its start.
KthDigit(text, k) ==
    LET D == DigitPlaces(text)
    IN  text[CHOOSE i \in D : Cardinality({j \in D : j <= i}) = k]

\* C11: extract_six_digit_code returns the first 6 digit characters, in
\* engine order, of the concatenation of all recognized fragments when that
\* concatenation holds at least 6 digit characters, and None otherwise; a
\* result that is present has length exactly 6 and only digits, never a
\* partial string.
C11_FirstSixDigitsOrNone ==
    (ocr.calls > 0 /\ ocr.fault = "none") =>
        LET text == JoinFragments(ocr.frags)
        IN  /\ IF Cardinality(DigitPlaces(text)) >= 6
               THEN /\ Len(ocr.code) = 6
                    /\ \A k \in 1..6 : ocr.code[k] = KthDigit(text, k)
               ELSE ocr.code = NoCode
            /\ ocr.code # NoCode =>
                  /\ Len(ocr.code) = 6
                  /\ \A k \in 1..6 : ocr.code[k] \in Digits

\* The engine returned two fragments with a letter among six digits, and the
\* recognizer gave the six digits in their order.
C11_Witness ==
    /\ pc = "captcha_submit"
    /\ ocr.frags = << <<"1", "a", "3">>, <<"4", "5", "6", "7">> >>
    /\ ocr.code = <<"1", "3", "4", "5", "6", "7">>

\* The call of solve_captcha the history is about has returned, or the
\* process is past it.
PastCaptchaFailure == pc \in {"outcome", "sleep", "create", "check_start", "crashed"}

\* C12: extract_six_digit_code never raises to its caller: an error of the
\* model's initialization, of the image conversion or of the recognition
\* gives an absent result, after which solve_captcha returns failure (the
\* run's outcome is the CAPTCHA error, not an exception's).
C12_ExtractNeverRaises ==
    /\ ~ocr.raised
    /\ ocr.fault # "none" =>
          /\ ocr.code = NoCode
          /\ PastCaptchaFailure
          /\ pc = "outcome" => ret = CaptchaFailedOutcome

\* The reader could not be loaded, and the run ended with the CAPTCHA error.
C12_Witness ==
    /\ pc = "outcome"
    /\ ocr.calls = 1
    /\ ocr.fault = "init"
    /\ ret.result = "Error solving captcha"

\* The reads of the image source a call of solve_captcha made.
ReadPlaces(log) ==
    {i \in DOMAIN log : log[i] \in {"read_raised", "read_empty", "read_ok"}}

\* Event e is in the log.
Logged(log, e) == \E i \in DOMAIN log : log[i] = e

\* max(300 * backoff, 120), the wait after an error outcome.
ErrorWaitIs(wait, backoff) ==
    LET scaled == FracMul(Whole(300), backoff)
    IN  IF FracGeq(scaled, Whole(120)) THEN FracEq(wait, scaled)
                                       ELSE FracEq(wait, Whole(120))

\* C13: when all 3 attempts to read the CAPTCHA image source fail (each
\* raises or returns an empty value), solve_captcha makes no further read,
\* returns failure without calling the recognizer, check_appointments
\* returns an error outcome and the scheduler's next wait is
\* max(300 * backoff multiplier, 120).
C13_ThreeFailedReads ==
    (Cardinality(ReadPlaces(captcha_log)) >= 3 /\ ~Logged(captcha_log, "read_ok")) =>
        /\ Cardinality(ReadPlaces(captcha_log)) = 3
        /\ ~Logged(captcha_log, "ocr")
        /\ ocr.calls = 0
        /\ PastCaptchaFailure
        /\ pc = "outcome" => ret.status = "error"
        /\ pc = "sleep" => /\ last.status = "error"
                           /\ ErrorWaitIs(last.wait, last.backoff_before)

\* Three reads failed, two by raising and one with an empty value, after an
\* earlier error outcome: the wait is 240 s.
C13_Witness ==
    /\ pc = "sleep"
    /\ captcha_log = <<"read_raised", "sleep", "read_empty", "read_raised", "sleep">>
    /\ FracEq(last.wait, Whole(240))

\* solve_captcha has just returned True.
CaptchaSucceeded ==
    /\ pc = "fill_form"
    /\ stages # <<>>
    /\ stages[Len(stages)] = "captcha_ok"

\* C14: solve_captcha returns success only when the recognizer produced a
\* 6-digit code, and that code was typed into the input field before the
\* submit was triggered; when the recognition result is absent the stage
\* returns failure and neither types nor submits; the recognizer is called
\* at most once per call of the stage.
C14_SuccessOnlyWithTypedCode ==
    /\ CaptchaSucceeded =>
          /\ Len(ocr.code) = 6
          /\ \A k \in 1..6 : ocr.code[k] \in Digits
          /\ typed = ocr.code
          /\ \E i, j \in DOMAIN captcha_log :
                i < j /\ captcha_log[i] = "type" /\ captcha_log[j] = "submit"
    /\ (ocr.calls > 0 /\ ocr.code = NoCode) =>
          /\ ~CaptchaSucceeded
          /\ pc # "captcha_submit"
          /\ typed = NoCode
          /\ \A e \in {"type", "type_raised", "submit", "submit_raised"} :
                ~Logged(captcha_log, e)
    /\ ocr.calls <= 1
    /\ Cardinality({i \in DOMAIN captcha_log : captcha_log[i] = "ocr"}) <= 1

\* The stage returned True after the third read gave the image: the code
\* 123456 was recognized, typed, and then submitted.
C14_Witness ==
    /\ CaptchaSucceeded
    /\ typed = <<"1", "2", "3", "4", "5", "6">>
    /\ captcha_log = <<"read_raised", "sleep", "read_empty", "read_ok",
                       "open", "ocr", "close", "type", "submit">>

(***************************************************************************)
(* The stages of a run.                                                    *)
(***************************************************************************)
\* The place of a stage in the order navigate, challenge bypass, CAPTCHA,
\* form, availability.
StageRank(s) ==
    CASE s = "navigate" -> 1
      [] s = "bypass" -> 2
      [] s \in {"captcha_ok", "captcha_failed"} -> 3
      [] s \in {"form_ok", "form_failed"} -> 4
      [] OTHER -> 5

\* C15: within one run the stages execute in the fixed order navigate,
\* challenge bypass, CAPTCHA, form, availability; if the CAPTCHA stage fails
\* no form selection, availability check or notification happens, and if
\* the form stage fails no availability check or notification happens; in
\* both cases the outcome has status error.
C15_StagesInOrderFailFast ==
    /\ \A i \in DOMAIN stages : StageRank(stages[i]) = IF i < 5 THEN i ELSE 5
    /\ \A i \in DOMAIN stages :
          stages[i] \in {"captcha_failed", "form_failed"} =>
              /\ i = Len(stages)
              /\ pc = "outcome"
              /\ ret.status = "error"
              /\ all_results = <<>>
              /\ results = <<>>
              /\ page_log = <<>>
              /\ notifications = <<>>

\* The CAPTCHA stage failed and the run ended there, with an error outcome.
C15_Witness ==
    /\ pc = "outcome"
    /\ stages = <<"navigate", "bypass", "captcha_failed">>
    /\ ret = CaptchaFailedOutcome

(***************************************************************************)
(* Resources.                                                              *)
(***************************************************************************)
\* C16: across any number of loop iterations and recognizer calls in one
\* process the recognition model is initialized at most once: the first
\* call that needs it loads it, and every later call, from the checkers of
\* later iterations too, reuses the loaded model.
C16_ReaderLoadedAtMostOnce ==
    /\ reader_inits <= 1
    /\ reader_loaded <=> reader_inits = 1
    /\ (ocr.calls > 0 /\ ocr.fault # "init") => reader_loaded

\* In a later iteration the recognizer was called on the reader an earlier
\* iteration had loaded.
C16_Witness ==
    /\ last.status # "none"
    /\ ocr.calls = 1
    /\ ocr.reused
    /\ ocr.fault = "none"
    /\ reader_inits = 1

C18_ConfigLoadedOnceAtStart ==
    started => pc \notin {"check_start", "crashed"}

\* C19: an operator interrupt ends the loop cleanly wherever in an iteration
\* it arrives (the creation of the checker, the workflow, a normal or
\* accelerated wait, a backoff wait, the wait after an unexpected error):
\* the loop exits through its interrupt handler and the interrupt does not
\* leave main().
C19_InterruptExitsCleanly ==
    interrupted_at # "" => pc = "terminated"

\* C20: a non-interrupt exception that reaches the scheduler loop is handled
\* like an error outcome: the wait is max(300 * backoff multiplier, 120),
\* the multiplier is then adjusted as after an error outcome, and the loop
\* goes on.
C20_ExceptionHandledLikeError ==
    (pc = "sleep" /\ last.status = "exception") =>
        /\ ErrorWaitIs(last.wait, last.backoff_before)
        /\ FracEq(retry_backoff, FracMul(last.backoff_before, Frac(4, 5)))

(***************************************************************************)
(* The stages taken one by one.                                            *)
(***************************************************************************)
\* C21: a failure of the challenge-bypass click, in headless or in visible
\* mode, is swallowed: navigate_to_homepage returns normally and the CAPTCHA
\* stage is the next thing the same run attempts.
C21_BypassFailureSwallowed ==
    bypass.raised =>
        /\ bypass.click = IF headless THEN "click_if_visible" ELSE "gui_click_element"
        /\ pc = "captcha_read"
        /\ try_count = 0
        /\ ret = NoRet
        /\ stages = <<"navigate", "bypass">>

\* In visible mode the click raised, and the run stands before its first
\* read of the CAPTCHA image.
C21_Witness ==
    /\ ~headless
    /\ bypass = [click |-> "gui_click_element", raised |-> TRUE]
    /\ pc = "captcha_read"

\* The order of the selections of the form.
FormOrder == <<"city", "office", "application_type", "office_type">>

\* C22: fill_form makes its selections in the fixed order location, office,
\* travel purpose, then service type when one is given; the first selection
\* that fails makes it return failure without attempting a later selection
\* and without retrying, and fill_form never raises to its caller (the run
\* ends with the form's error outcome, not the exception handler's).
C22_FormInOrderFailFast ==
    LET made == form_log.made
    IN  /\ Len(made) <= Len(FormOrder)
        /\ \A i \in DOMAIN made : made[i] = FormOrder[i]
        /\ form_log.failed # "none" =>
              /\ made # <<>>
              /\ made[Len(made)] = form_log.failed
              /\ pc = "outcome"
              /\ ret = FormFailedOutcome
        /\ (form_log.failed = "none" /\ made # <<>>) =>
              /\ Len(made) >= 3
              /\ pc # "fill_form"
              /\ pc = "outcome" => ret.result # "Error filling form"

\* The selection of the office failed: the city and the office were
\* attempted, the travel purpose was not, and the run ended with the form's
\* error outcome.
C22_Witness ==
    /\ pc = "outcome"
    /\ form_log = [made |-> <<"city", "office">>, failed |-> "office"]
    /\ ret.result = "Error filling form"

\* The stages of a run that went through n office types.
RECURSIVE OfficeStages(_)
OfficeStages(n) ==
    IF n = 0 THEN <<>> ELSE <<"office_select", "availability">> \o OfficeStages(n - 1)

\* The office types the configuration names ("STANDART" when it names none).
ConfiguredTypes ==
    IF cfg.office_type.items = <<>> THEN <<"STANDART">> ELSE cfg.office_type.items

\* C23: in a run with N configured service types that ends with status
\* success, each service type is selected on the form and then checked, in
\* configured order, exactly once; the run has exactly 4 * N records, one
\* per service type and party size, ordered by service type and then party
\* size, and its any-availability flag is the OR of the N flags the checks
\* of the service types returned.
C23_OnePassPerOfficeType ==
    (pc = "outcome" /\ ret.status = "success") =>
        LET N == Len(ConfiguredTypes)
        IN  /\ stages = <<"navigate", "bypass", "captcha_ok", "form_ok">> \o OfficeStages(N)
            /\ Len(all_results) = 4 * N
            /\ \A t \in 1..N : \A n \in 1..4 :
                  /\ all_results[4 * (t - 1) + n].office_type = ConfiguredTypes[t]
                  /\ all_results[4 * (t - 1) + n].person_count = n
            /\ Len(type_flags) = N
            /\ ret.found = (\E t \in 1..N : type_flags[t])

\* A successful run over two office types, of which only the first had an
\* appointment.
C23_Witness ==
    /\ pc = "outcome"
    /\ ret = SuccessOutcome(TRUE)
    /\ office_types = <<"STANDART", "VIP">>
    /\ type_flags = <<TRUE, FALSE>>
    /\ Len(all_results) = 8

\* C24: in solve_captcha the image source is read at most 3 times, reading
\* stops at the first non-empty value, and between any two consecutive
\* reads the stage sleeps, whether the earlier read raised or returned an
\* empty value.
C24_SleepBetweenReads ==
    LET R == ReadPlaces(captcha_log)
    IN  /\ Cardinality(R) <= 3
        /\ \A i \in R : captcha_log[i] = "read_ok" => \A j \in R : j <= i
        /\ \A i, j \in R :
              i < j => \E s \in DOMAIN captcha_log :
                          i < s /\ s < j /\ captcha_log[s] = "sleep"

\* The places of main where a workflow run is in progress.
MidRun ==
    {"check_start", "navigate", "captcha_read", "captcha_decode", "captcha_submit",
     "fill_form", "office_loop", "check_person", "ca_return"}

\* C25: an operator interrupt is honored only between loop iterations: one
\* that arrives while a workflow run is in progress does not cut the run
\* short (the run completes its stages and returns its outcome, and then
\* the loop exits before another run starts).
C25_InterruptOnlyBetweenRuns ==
    pc \in {"terminated", "interrupt_escaped"} => interrupted_at \notin MidRun

C28_NotifiedRunSucceeds ==
    notifications # <<>> =>
        /\ pc = "outcome" => (ret.status = "success" /\ ret.found)
        /\ pc = "sleep" => (last.status = "success" /\ last.found /\ accelerated_mode)
=============================================================================
